---- MODULE Spec2Model ----
(***************************************************************************)
(* Bidar authentication server: user store, password hashing, JWT          *)
(* issuance and verification, role hierarchy, and the HTTP handlers of     *)
(* src/api/routes/{auth,rbac,users}.py over src/crud/users.py.             *)
(*                                                                         *)
(* Time is counted in whole seconds, as the JWT exp claim is.  An optional *)
(* value (Python None / a value) is a sequence of length 0 or 1.           *)
(***************************************************************************)
EXTENDS Integers, Sequences, FiniteSets, TLC

\* ------------------------------------------------------------------ bounds
MaxUsers == 2        \* rows ever inserted into the users table
MaxTokens == 4       \* distinct tokens ever issued, two accounts (Spec)
MaxOneTokens == 3    \* distinct tokens ever issued, one account
MaxRace == 2         \* registrations in flight at the same time

\* ------------------------------------------------------- program constants
ACCESS_TOKEN_EXPIRE_MINUTES == 30
REFRESH_TOKEN_EXPIRE_DAYS == 7
HTTP_200_OK == 200
HTTP_400_BAD_REQUEST == 400
HTTP_401_UNAUTHORIZED == 401
HTTP_403_FORBIDDEN == 403
HTTP_404_NOT_FOUND == 404

JWT_SECRET_KEY == "your-secret-key-change-in-production"
OtherKey == "some-other-secret"

\* ------------------------------------------------------------ input values
Usernames == {"alice", "bob"}
Emails == {"a@x", "b@x"}
Passwords == {"pw1", "pw2"}
RegPasswords == {"pw1"}
FullNames == {<<"Full Name">>}
KnownRoles == {"user", "moderator", "admin", "super_admin"}
Roles == KnownRoles \cup {"guest"}
StoredRoles == {"user", "admin"}
RequiredRoles == {"moderator", "admin", "guest"}

None == <<>>
Some(v) == <<v>>

VARIABLES
    users,      \* the users table: id -> row
    next_id,    \* the next primary key the table hands out
    clock,      \* current time, in seconds
    issued,     \* every token the server has returned so far
    last,       \* the last request handled and its response
    pending     \* registrations in flight: request -> body, position, response

vars == <<users, next_id, clock, issued, last, pending>>

\* ---------------------------------------------------------- password hashes
Digest(salt, password) == <<salt, password>>

get_password_hash(password, salt) ==
    [salt |-> salt, digest |-> Digest(salt, password)]

\* A stored string that no call of get_password_hash produced.
MalformedHash == [raw |-> "hashed_password_123"]

\* Variant: an empty secret is not hashed and compared but waved through.
verify_password_empty_ok(plain_password, hashed_password) ==
    IF DOMAIN hashed_password # {"salt", "digest"} THEN FALSE
    ELSE \/ plain_password = ""
         \/ Digest(hashed_password.salt, plain_password) = hashed_password.digest

verify_password(plain_password, hashed_password) ==
    IF DOMAIN hashed_password # {"salt", "digest"} THEN FALSE
    ELSE Digest(hashed_password.salt, plain_password) = hashed_password.digest

\* ------------------------------------------------------------- token codec
\* A compact JWT: the claims and a MAC of the claims under the signing key.
Hmac(key, payload) == <<key, payload>>

jwt_encode(claims, key) == [payload |-> claims, sig |-> Hmac(key, claims)]

Malformed == [payload |-> [garbage |-> "invalid_token"], sig |-> <<>>]

\* Variant: the decoder hands back the registered claims only.
jwt_decode_registered(token, key, now) ==
    IF token.sig # Hmac(key, token.payload) THEN None
    ELSE IF "exp" \in DOMAIN token.payload /\ token.payload.exp < now THEN None
    ELSE Some([k \in DOMAIN token.payload \cap {"sub", "exp"} |-> token.payload[k]])

\* jose.jwt.decode: the claims, or a JWTError (None) when the signature does
\* not verify or the token has expired.  jose compares whole seconds and
\* raises ExpiredSignatureError when exp < now.
jwt_decode(token, key, now) ==
    IF token.sig # Hmac(key, token.payload) THEN None
    ELSE IF "exp" \in DOMAIN token.payload /\ token.payload.exp < now THEN None
    ELSE Some(token.payload)

\* dict.get(key) and dict.get(key, default)
Get(payload, k) == IF k \in DOMAIN payload THEN Some(payload[k]) ELSE None
GetOr(payload, k, default) == IF k \in DOMAIN payload THEN payload[k] ELSE default

AccessTtl == ACCESS_TOKEN_EXPIRE_MINUTES * 60
RefreshTtl == REFRESH_TOKEN_EXPIRE_DAYS * 24 * 60 * 60

\* to_encode = data.copy(); to_encode.update({"exp": ...}): the added claims
\* replace claims of the same name.
create_access_token(data, expires_delta, now) ==
    jwt_encode([exp |-> now + expires_delta] @@ data, JWT_SECRET_KEY)

create_refresh_token(data, now) ==
    jwt_encode([exp |-> now + RefreshTtl, type |-> "refresh"] @@ data,
               JWT_SECRET_KEY)

\* ---------------------------------------------------------- role hierarchy
ROLE_HIERARCHY ==
    [r \in KnownRoles |->
        CASE r = "user" -> 0
          [] r = "moderator" -> 1
          [] r = "admin" -> 2
          [] r = "super_admin" -> 3]

RoleLevel(role) == IF role \in DOMAIN ROLE_HIERARCHY THEN ROLE_HIERARCHY[role] ELSE 0

\* Variant: permission as membership (the actor's role is the required one).
check_role_permission_exact(user_role, required_role) ==
    user_role = required_role

\* Variant: the actor's level must exceed the required one.
check_role_permission_strict(user_role, required_role) ==
    RoleLevel(user_role) > RoleLevel(required_role)

check_role_permission(user_role, required_role) ==
    RoleLevel(user_role) >= RoleLevel(required_role)

\* -------------------------------------------------------------- responses
HTTPException(status_code, detail, headers) ==
    [status |-> status_code, detail |-> detail, headers |-> headers,
     body |-> None]

Ok(body) ==
    [status |-> HTTP_200_OK, detail |-> "", headers |-> None, body |-> Some(body)]

IsOk(resp) == resp.status = HTTP_200_OK

\* ------------------------------------------------------------- users table
get_user_by_id(db, user_id) ==
    IF user_id \in DOMAIN db THEN Some(db[user_id]) ELSE None

get_user_by_username(db, username) ==
    LET ids == {i \in DOMAIN db : db[i].username = username}
    IN IF ids = {} THEN None ELSE Some(db[CHOOSE i \in ids : TRUE])

get_user_by_email(db, email) ==
    LET ids == {i \in DOMAIN db : db[i].email = email}
    IN IF ids = {} THEN None ELSE Some(db[CHOOSE i \in ids : TRUE])

get_user(db, username) == get_user_by_username(db, username)

get_users(db) == {db[i] : i \in DOMAIN db}

\* create_user: every field of the UserCreate body but the password is
\* copied into the row; the password is stored hashed.
create_user(db, id, user_create) ==
    [id |-> id,
     username |-> user_create.username,
     email |-> user_create.email,
     full_name |-> user_create.full_name,
     is_active |-> user_create.is_active,
     is_superuser |-> user_create.is_superuser,
     role |-> user_create.role,
     hashed_password |-> get_password_hash(user_create.password, id)]

Insert(db, row) == (row.id :> row) @@ db

\* Variant of update_user: the WHERE clause on the id is lost.
update_user_every_row(db, user_id, user_update) ==
    IF user_id \notin DOMAIN db THEN db
    ELSE [i \in DOMAIN db |->
            [f \in DOMAIN db[i] |->
                IF f \in DOMAIN user_update THEN user_update[f]
                ELSE db[i][f]]]

\* update_user: the fields set in the UserUpdate overwrite the row's.
update_user(db, user_id, user_update) ==
    IF user_id \notin DOMAIN db THEN db
    ELSE [db EXCEPT ![user_id] =
            [f \in DOMAIN db[user_id] |->
                IF f \in DOMAIN user_update THEN user_update[f]
                ELSE db[user_id][f]]]

delete_user(db, user_id) == [i \in DOMAIN db \ {user_id} |-> db[i]]

crud_activate_user(db, user_id) == update_user(db, user_id, [is_active |-> TRUE])
crud_deactivate_user(db, user_id) == update_user(db, user_id, [is_active |-> FALSE])

\* ----------------------------------------------------------- authentication
authenticate_user(db, username, password) ==
    LET user == get_user(db, username)
    IN IF user = None THEN None
       ELSE IF ~verify_password(password, user[1].hashed_password) THEN None
       ELSE user

TokenClaims(user) ==
    [sub |-> user.username, user_id |-> user.id, role |-> user.role]

\* Variant: a deactivated user is refused at login.
login_for_access_token_active_only(db, username, password, now) ==
    LET user == authenticate_user(db, username, password)
    IN IF user = None \/ ~user[1].is_active
       THEN HTTPException(HTTP_401_UNAUTHORIZED, "Incorrect username or password",
                          Some("WWW-Authenticate: Bearer"))
       ELSE Ok([access_token |-> create_access_token(TokenClaims(user[1]), AccessTtl, now),
                refresh_token |-> Some(create_refresh_token(TokenClaims(user[1]), now)),
                token_type |-> "bearer",
                expires_in |-> ACCESS_TOKEN_EXPIRE_MINUTES * 60])

\* Variant: a stored hash that cannot be parsed surfaces as a server error.
login_for_access_token_unhandled(db, username, password, now) ==
    LET user == authenticate_user(db, username, password)
        row == get_user(db, username)
    IN IF row # None /\ DOMAIN row[1].hashed_password # {"salt", "digest"}
       THEN HTTPException(500, "Internal Server Error", None)
       ELSE IF user = None
       THEN HTTPException(HTTP_401_UNAUTHORIZED, "Incorrect username or password",
                          Some("WWW-Authenticate: Bearer"))
       ELSE Ok([access_token |-> create_access_token(TokenClaims(user[1]), AccessTtl, now),
                refresh_token |-> Some(create_refresh_token(TokenClaims(user[1]), now)),
                token_type |-> "bearer",
                expires_in |-> ACCESS_TOKEN_EXPIRE_MINUTES * 60])

\* Variant: an unknown username is reported as such.
login_for_access_token_reveal(db, username, password, now) ==
    LET user == authenticate_user(db, username, password)
    IN IF get_user(db, username) = None
       THEN HTTPException(HTTP_404_NOT_FOUND, "User not found", None)
       ELSE IF user = None
       THEN HTTPException(HTTP_401_UNAUTHORIZED, "Incorrect username or password",
                          Some("WWW-Authenticate: Bearer"))
       ELSE Ok([access_token |-> create_access_token(TokenClaims(user[1]), AccessTtl, now),
                refresh_token |-> Some(create_refresh_token(TokenClaims(user[1]), now)),
                token_type |-> "bearer",
                expires_in |-> ACCESS_TOKEN_EXPIRE_MINUTES * 60])

\* Variant: expires_in in minutes, and a refresh token built as an access
\* token with the refresh lifetime.
login_for_access_token_minutes(db, username, password, now) ==
    LET user == authenticate_user(db, username, password)
    IN IF user = None
       THEN HTTPException(HTTP_401_UNAUTHORIZED, "Incorrect username or password",
                          Some("WWW-Authenticate: Bearer"))
       ELSE Ok([access_token |-> create_access_token(TokenClaims(user[1]), AccessTtl, now),
                refresh_token |-> Some(create_access_token(TokenClaims(user[1]), RefreshTtl, now)),
                token_type |-> "bearer",
                expires_in |-> ACCESS_TOKEN_EXPIRE_MINUTES])

\* POST /auth/token
login_for_access_token(db, username, password, now) ==
    LET user == authenticate_user(db, username, password)
    IN IF user = None
       THEN HTTPException(HTTP_401_UNAUTHORIZED, "Incorrect username or password",
                          Some("WWW-Authenticate: Bearer"))
       ELSE Ok([access_token |-> create_access_token(TokenClaims(user[1]), AccessTtl, now),
                refresh_token |-> Some(create_refresh_token(TokenClaims(user[1]), now)),
                token_type |-> "bearer",
                expires_in |-> ACCESS_TOKEN_EXPIRE_MINUTES * 60])

TokensOf(resp) ==
    IF ~IsOk(resp) THEN {}
    ELSE {resp.body[1].access_token}
         \cup {resp.body[1].refresh_token[i] : i \in DOMAIN resp.body[1].refresh_token}

\* ---------------------------------------------------------- results/raises
Return(v) == [exc |-> None, val |-> v]
Raise(e) == [exc |-> Some(e)]
Raised(r) == r.exc # None

\* ------------------------------------------------------------ authorization
credentials_exception ==
    HTTPException(HTTP_401_UNAUTHORIZED, "Could not validate credentials",
                  Some("WWW-Authenticate: Bearer"))

get_current_user(db, token, now) ==
    LET payload == jwt_decode(token, JWT_SECRET_KEY, now)
    IN IF payload = None THEN Raise(credentials_exception)
       ELSE LET username == Get(payload[1], "sub")
            IN IF username = None THEN Raise(credentials_exception)
               ELSE LET user == get_user(db, username[1])
                    IN IF user = None
                       THEN Raise(HTTPException(HTTP_401_UNAUTHORIZED, "User not found",
                                                Some("WWW-Authenticate: Bearer")))
                       ELSE Return(user[1])

get_current_active_user(db, token, now) ==
    LET current_user == get_current_user(db, token, now)
    IN IF Raised(current_user) THEN current_user
       ELSE IF ~current_user.val.is_active
       THEN Raise(HTTPException(HTTP_401_UNAUTHORIZED, "Inactive user", None))
       ELSE current_user

verify_token_and_role(token, required_role, now) ==
    LET payload == jwt_decode(token, JWT_SECRET_KEY, now)
    IN IF payload = None THEN Raise(credentials_exception)
       ELSE LET role == GetOr(payload[1], "role", "user")
            IN IF ~check_role_permission(role, required_role)
               THEN Raise(HTTPException(HTTP_403_FORBIDDEN, "Insufficient permissions", None))
               ELSE Return([allowed |-> TRUE,
                            user_id |-> Get(payload[1], "user_id"),
                            username |-> Get(payload[1], "sub"),
                            role |-> role])

\* Variant of the refresh route: the type claim is not looked at.
refresh_access_token_any_type(db, refresh_token, now) ==
    LET payload == jwt_decode(refresh_token, JWT_SECRET_KEY, now)
    IN IF payload = None
       THEN HTTPException(HTTP_401_UNAUTHORIZED, "Invalid refresh token", None)
       ELSE LET username == Get(payload[1], "sub")
            IN IF username = None
               THEN HTTPException(HTTP_401_UNAUTHORIZED, "Invalid refresh token", None)
               ELSE LET user == get_user(db, username[1])
                    IN IF user = None
                       THEN HTTPException(HTTP_401_UNAUTHORIZED, "User not found", None)
                       ELSE Ok([access_token |->
                                    create_access_token(TokenClaims(user[1]), AccessTtl, now),
                                refresh_token |-> None,
                                token_type |-> "bearer",
                                expires_in |-> ACCESS_TOKEN_EXPIRE_MINUTES * 60])

\* Variant of the refresh route: the new access token repeats the claims of
\* the refresh token instead of reading the user's row.
refresh_access_token_stale(db, refresh_token, now) ==
    LET payload == jwt_decode(refresh_token, JWT_SECRET_KEY, now)
    IN IF payload = None
       THEN HTTPException(HTTP_401_UNAUTHORIZED, "Invalid refresh token", None)
       ELSE LET username == Get(payload[1], "sub")
                token_type == Get(payload[1], "type")
            IN IF username = None \/ token_type # Some("refresh")
               THEN HTTPException(HTTP_401_UNAUTHORIZED, "Invalid refresh token", None)
               ELSE LET user == get_user(db, username[1])
                    IN IF user = None
                       THEN HTTPException(HTTP_401_UNAUTHORIZED, "User not found", None)
                       ELSE Ok([access_token |->
                                    create_access_token(
                                        [sub |-> payload[1].sub,
                                         user_id |-> payload[1].user_id,
                                         role |-> payload[1].role], AccessTtl, now),
                                refresh_token |-> None,
                                token_type |-> "bearer",
                                expires_in |-> ACCESS_TOKEN_EXPIRE_MINUTES * 60])

\* Variant of /auth/me: depends on get_current_user, not on the active user.
read_users_me_any(db, token, now) ==
    LET current_user == get_current_user(db, token, now)
    IN IF Raised(current_user) THEN current_user.exc[1]
       ELSE Ok([id |-> current_user.val.id,
                username |-> current_user.val.username,
                email |-> current_user.val.email,
                full_name |-> current_user.val.full_name,
                is_active |-> current_user.val.is_active,
                is_superuser |-> current_user.val.is_superuser,
                role |-> current_user.val.role])

\* Variant of /rbac/verify-permission: a refusal is answered in the body.
verify_permission_refusal(authorization, required_role, now) ==
    IF authorization = None \/ authorization[1].scheme # "Bearer"
    THEN HTTPException(HTTP_401_UNAUTHORIZED, "Missing or invalid authorization header",
                       Some("WWW-Authenticate: Bearer"))
    ELSE LET result == verify_token_and_role(authorization[1].token, required_role, now)
         IN IF ~Raised(result) THEN Ok(result.val)
            ELSE IF result.exc[1].status = HTTP_403_FORBIDDEN
            THEN Ok([allowed |-> FALSE, user_id |-> None, username |-> None,
                     role |-> "user"])
            ELSE result.exc[1]

\* Variant of /rbac/verify-permission: the role is read from the subject's
\* row in the users table when there is one.
verify_permission_live(authorization, required_role, now) ==
    IF authorization = None \/ authorization[1].scheme # "Bearer"
    THEN HTTPException(HTTP_401_UNAUTHORIZED, "Missing or invalid authorization header",
                       Some("WWW-Authenticate: Bearer"))
    ELSE LET payload == jwt_decode(authorization[1].token, JWT_SECRET_KEY, now)
             user == IF payload = None \/ "sub" \notin DOMAIN payload[1] THEN None
                     ELSE get_user(users, payload[1].sub)
             role == IF user = None THEN GetOr(payload[1], "role", "user")
                     ELSE user[1].role
         IN IF payload = None THEN credentials_exception
            ELSE IF ~check_role_permission(role, required_role)
            THEN HTTPException(HTTP_403_FORBIDDEN, "Insufficient permissions", None)
            ELSE Ok([allowed |-> TRUE,
                     user_id |-> Get(payload[1], "user_id"),
                     username |-> Get(payload[1], "sub"),
                     role |-> role])

\* Variant of the refresh route: the expiry of the refresh token is not
\* verified (decode with verify_exp off).
refresh_access_token_no_exp(db, refresh_token, now) ==
    LET payload == IF refresh_token.sig # Hmac(JWT_SECRET_KEY, refresh_token.payload)
                   THEN None ELSE Some(refresh_token.payload)
    IN IF payload = None
       THEN HTTPException(HTTP_401_UNAUTHORIZED, "Invalid refresh token", None)
       ELSE LET username == Get(payload[1], "sub")
                token_type == Get(payload[1], "type")
            IN IF username = None \/ token_type # Some("refresh")
               THEN HTTPException(HTTP_401_UNAUTHORIZED, "Invalid refresh token", None)
               ELSE LET user == get_user(db, username[1])
                    IN IF user = None
                       THEN HTTPException(HTTP_401_UNAUTHORIZED, "User not found", None)
                       ELSE Ok([access_token |->
                                    create_access_token(TokenClaims(user[1]), AccessTtl, now),
                                refresh_token |-> None,
                                token_type |-> "bearer",
                                expires_in |-> ACCESS_TOKEN_EXPIRE_MINUTES * 60])

\* Variant of the refresh route: a missing subject is answered 404.
refresh_access_token_404(db, refresh_token, now) ==
    LET payload == jwt_decode(refresh_token, JWT_SECRET_KEY, now)
    IN IF payload = None
       THEN HTTPException(HTTP_401_UNAUTHORIZED, "Invalid refresh token", None)
       ELSE LET username == Get(payload[1], "sub")
                token_type == Get(payload[1], "type")
            IN IF username = None \/ token_type # Some("refresh")
               THEN HTTPException(HTTP_401_UNAUTHORIZED, "Invalid refresh token", None)
               ELSE LET user == get_user(db, username[1])
                    IN IF user = None
                       THEN HTTPException(HTTP_404_NOT_FOUND, "User not found", None)
                       ELSE Ok([access_token |->
                                    create_access_token(TokenClaims(user[1]), AccessTtl, now),
                                refresh_token |-> None,
                                token_type |-> "bearer",
                                expires_in |-> ACCESS_TOKEN_EXPIRE_MINUTES * 60])

\* Variant of /rbac/verify-permission: a token without a role claim is not
\* taken as valid credentials.
verify_permission_role_required(authorization, required_role, now) ==
    IF authorization = None \/ authorization[1].scheme # "Bearer"
    THEN HTTPException(HTTP_401_UNAUTHORIZED, "Missing or invalid authorization header",
                       Some("WWW-Authenticate: Bearer"))
    ELSE IF "role" \notin DOMAIN authorization[1].token.payload
    THEN credentials_exception
    ELSE LET result == verify_token_and_role(authorization[1].token, required_role, now)
         IN IF Raised(result) THEN result.exc[1] ELSE Ok(result.val)

\* Variant of the refresh route: the subject is not looked up; the new token
\* repeats the claims of the refresh token.
refresh_access_token_no_lookup(db, refresh_token, now) ==
    LET payload == jwt_decode(refresh_token, JWT_SECRET_KEY, now)
    IN IF payload = None
       THEN HTTPException(HTTP_401_UNAUTHORIZED, "Invalid refresh token", None)
       ELSE LET username == Get(payload[1], "sub")
                token_type == Get(payload[1], "type")
            IN IF username = None \/ token_type # Some("refresh")
               THEN HTTPException(HTTP_401_UNAUTHORIZED, "Invalid refresh token", None)
               ELSE Ok([access_token |->
                            create_access_token(
                                [k \in DOMAIN payload[1] \ {"exp", "type"} |-> payload[1][k]],
                                AccessTtl, now),
                        refresh_token |-> None,
                        token_type |-> "bearer",
                        expires_in |-> ACCESS_TOKEN_EXPIRE_MINUTES * 60])

\* Variant of /rbac/my-role: the role is read from the token.
get_my_role_of_token(db, token, now) ==
    LET current_user == get_current_active_user(db, token, now)
    IN IF Raised(current_user) THEN current_user.exc[1]
       ELSE Ok([user_id |-> current_user.val.id,
                username |-> current_user.val.username,
                role |-> GetOr(token.payload, "role", "user"),
                is_superuser |-> current_user.val.is_superuser])

\* Variant of the refresh route: a deactivated user is refused, as behind
\* get_current_active_user.
refresh_access_token_active_only(db, refresh_token, now) ==
    LET payload == jwt_decode(refresh_token, JWT_SECRET_KEY, now)
    IN IF payload = None
       THEN HTTPException(HTTP_401_UNAUTHORIZED, "Invalid refresh token", None)
       ELSE LET username == Get(payload[1], "sub")
                token_type == Get(payload[1], "type")
            IN IF username = None \/ token_type # Some("refresh")
               THEN HTTPException(HTTP_401_UNAUTHORIZED, "Invalid refresh token", None)
               ELSE LET user == get_user(db, username[1])
                    IN IF user = None
                       THEN HTTPException(HTTP_401_UNAUTHORIZED, "User not found", None)
                       ELSE IF ~user[1].is_active
                       THEN HTTPException(HTTP_401_UNAUTHORIZED, "Inactive user", None)
                       ELSE Ok([access_token |->
                                    create_access_token(TokenClaims(user[1]), AccessTtl, now),
                                refresh_token |-> None,
                                token_type |-> "bearer",
                                expires_in |-> ACCESS_TOKEN_EXPIRE_MINUTES * 60])

\* ------------------------------------------------------------ route handlers
\* POST /auth/refresh
refresh_access_token(db, refresh_token, now) ==
    LET payload == jwt_decode(refresh_token, JWT_SECRET_KEY, now)
    IN IF payload = None
       THEN HTTPException(HTTP_401_UNAUTHORIZED, "Invalid refresh token", None)
       ELSE LET username == Get(payload[1], "sub")
                token_type == Get(payload[1], "type")
            IN IF username = None \/ token_type # Some("refresh")
               THEN HTTPException(HTTP_401_UNAUTHORIZED, "Invalid refresh token", None)
               ELSE LET user == get_user(db, username[1])
                    IN IF user = None
                       THEN HTTPException(HTTP_401_UNAUTHORIZED, "User not found", None)
                       ELSE Ok([access_token |->
                                    create_access_token(TokenClaims(user[1]), AccessTtl, now),
                                refresh_token |-> None,
                                token_type |-> "bearer",
                                expires_in |-> ACCESS_TOKEN_EXPIRE_MINUTES * 60])

\* GET /auth/me
read_users_me(db, token, now) ==
    LET current_user == get_current_active_user(db, token, now)
    IN IF Raised(current_user) THEN current_user.exc[1]
       ELSE Ok([id |-> current_user.val.id,
                username |-> current_user.val.username,
                email |-> current_user.val.email,
                full_name |-> current_user.val.full_name,
                is_active |-> current_user.val.is_active,
                is_superuser |-> current_user.val.is_superuser,
                role |-> current_user.val.role])

\* Variant of /rbac/verify-permission: the subject must be a stored, active
\* user, as for the endpoints behind get_current_active_user.
verify_permission_active_only(authorization, required_role, now) ==
    IF authorization = None \/ authorization[1].scheme # "Bearer"
    THEN HTTPException(HTTP_401_UNAUTHORIZED, "Missing or invalid authorization header",
                       Some("WWW-Authenticate: Bearer"))
    ELSE LET current_user == get_current_active_user(users, authorization[1].token, now)
             result == verify_token_and_role(authorization[1].token, required_role, now)
         IN IF Raised(current_user) THEN current_user.exc[1]
            ELSE IF Raised(result) THEN result.exc[1] ELSE Ok(result.val)

\* POST /rbac/verify-permission.  The Authorization header is absent (None)
\* or a scheme followed by the credentials.
verify_permission(authorization, required_role, now) ==
    IF authorization = None \/ authorization[1].scheme # "Bearer"
    THEN HTTPException(HTTP_401_UNAUTHORIZED, "Missing or invalid authorization header",
                       Some("WWW-Authenticate: Bearer"))
    ELSE LET result == verify_token_and_role(authorization[1].token, required_role, now)
         IN IF Raised(result) THEN result.exc[1] ELSE Ok(result.val)

\* GET /rbac/my-role
get_my_role(db, token, now) ==
    LET current_user == get_current_active_user(db, token, now)
    IN IF Raised(current_user) THEN current_user.exc[1]
       ELSE Ok([user_id |-> current_user.val.id,
                username |-> current_user.val.username,
                role |-> current_user.val.role,
                is_superuser |-> current_user.val.is_superuser])

not_enough_permissions ==
    HTTPException(HTTP_403_FORBIDDEN, "Not enough permissions", None)

\* UserRead(...) as the list_users route builds it: role is not passed and
\* takes the UserBase default.
UserReadOfList(user) ==
    [id |-> user.id,
     username |-> user.username,
     email |-> user.email,
     full_name |-> user.full_name,
     is_active |-> user.is_active,
     is_superuser |-> user.is_superuser,
     role |-> "user"]

\* Variant of the user listing: the caller's role decides.
list_users_by_role(db, token, now) ==
    LET current_user == get_current_active_user(db, token, now)
    IN IF Raised(current_user) THEN current_user.exc[1]
       ELSE IF current_user.val.role # "admin" THEN not_enough_permissions
       ELSE Ok({UserReadOfList(u) : u \in get_users(db)})

\* GET /users/users
list_users(db, token, now) ==
    LET current_user == get_current_active_user(db, token, now)
    IN IF Raised(current_user) THEN current_user.exc[1]
       ELSE IF ~current_user.val.is_superuser THEN not_enough_permissions
       ELSE Ok({UserReadOfList(u) : u \in get_users(db)})

\* PUT /users/users/{user_id}/activate and .../deactivate
SetActive(db, user_id, token, now, active, word) ==
    LET current_user == get_current_active_user(db, token, now)
    IN IF Raised(current_user) THEN [db |-> db, resp |-> current_user.exc[1]]
       ELSE IF ~current_user.val.is_superuser
       THEN [db |-> db, resp |-> not_enough_permissions]
       ELSE IF get_user_by_id(db, user_id) = None
       THEN [db |-> db,
             resp |-> HTTPException(HTTP_404_NOT_FOUND, "User not found", None)]
       ELSE [db |-> update_user(db, user_id, [is_active |-> active]),
             resp |-> Ok([message |-> word, username |-> db[user_id].username])]

\* Variant of the activation route: an unknown user_id is not reported.
activate_user_unreported(db, user_id, token, now) ==
    LET r == SetActive(db, user_id, token, now, TRUE, "activated successfully")
    IN IF r.resp.status = HTTP_404_NOT_FOUND
       THEN [db |-> db,
             resp |-> Ok([message |-> "activated successfully", username |-> ""])]
       ELSE r

activate_user(db, user_id, token, now) ==
    SetActive(db, user_id, token, now, TRUE, "activated successfully")

deactivate_user(db, user_id, token, now) ==
    SetActive(db, user_id, token, now, FALSE, "deactivated successfully")

\* ------------------------------------------------------------------ actions
\* `last` observes the request being answered.  No handler reads it: a
\* request is taken when the previous response has been sent (Respond), so
\* the store, the clock and the tokens evolve exactly as without it.
Idle == [op |-> "idle", req |-> <<>>, resp |-> Ok(<<>>)]
IsIdle == last.op = "idle"

Init ==
    /\ users = <<>>
    /\ next_id = 1
    /\ clock = 0
    /\ issued = {}
    /\ pending = <<>>
    /\ last = Idle

RegisterBodies ==
    [username : Usernames, email : Emails, password : RegPasswords,
     full_name : FullNames, is_active : {TRUE}, is_superuser : BOOLEAN,
     role : StoredRoles]

\* Variant of the register route: only the username is looked up.
register_user_username_only(db, id, user_data) ==
    IF get_user_by_username(db, user_data.username) # None
    THEN [db |-> db,
          resp |-> HTTPException(HTTP_400_BAD_REQUEST, "Username already registered", None)]
    ELSE LET user == create_user(db, id, user_data)
         IN [db |-> Insert(db, user),
             resp |-> Ok([message |-> "User registered successfully",
                          user_id |-> user.id,
                          username |-> user.username,
                          email |-> user.email])]

\* POST /users/register
register_user(db, id, user_data) ==
    IF get_user_by_username(db, user_data.username) # None
    THEN [db |-> db,
          resp |-> HTTPException(HTTP_400_BAD_REQUEST, "Username already registered", None)]
    ELSE IF get_user_by_email(db, user_data.email) # None
    THEN [db |-> db,
          resp |-> HTTPException(HTTP_400_BAD_REQUEST, "Email already registered", None)]
    ELSE LET user == create_user(db, id, user_data)
         IN [db |-> Insert(db, user),
             resp |-> Ok([message |-> "User registered successfully",
                          user_id |-> user.id,
                          username |-> user.username,
                          email |-> user.email])]

\* Tokens a client can present: those the server issued, a string that is no JWT, and
\* a token signed under another key.
Forged == jwt_encode([sub |-> "alice", user_id |-> 1, role |-> "super_admin",
                      exp |-> RefreshTtl], OtherKey)
Presentable == issued \cup {Malformed, Forged}

UserIds == 1..MaxUsers

RegisterFrom(bodies) ==
    /\ IsIdle
    /\ \E user_data \in bodies :
        LET r == register_user(users, next_id, user_data)
        IN /\ IsOk(r.resp) => next_id <= MaxUsers
           /\ users' = r.db
           /\ next_id' = IF IsOk(r.resp) THEN next_id + 1 ELSE next_id
           /\ last' = [op |-> "register", req |-> user_data, resp |-> r.resp]
           /\ UNCHANGED <<clock, issued, pending>>

Register == RegisterFrom(RegisterBodies)

\* Registration of the one account followed over the lifetime of its tokens.
RegisterOne ==
    RegisterFrom({b \in RegisterBodies : b.username = "alice" /\ b.email = "a@x"})

\* Variant of the login step: a successful login stores a fresh hash of the
\* password (a new salt) in the user's row.
LoginWithin_rehashing(cap) ==
    /\ IsIdle
    /\ \E username \in Usernames, password \in Passwords :
        LET resp == login_for_access_token(users, username, password, clock)
            user == get_user_by_username(users, username)
        IN /\ Cardinality(issued \cup TokensOf(resp)) <= cap
           /\ issued' = issued \cup TokensOf(resp)
           /\ last' = [op |-> "login",
                       req |-> [username |-> username, password |-> password],
                       resp |-> resp]
           /\ users' = IF IsOk(resp)
                        THEN update_user(users, user[1].id,
                                 [hashed_password |->
                                     get_password_hash(password, user[1].id + MaxUsers)])
                        ELSE users
           /\ UNCHANGED <<next_id, clock, pending>>

LoginWithin(cap) ==
    /\ IsIdle
    /\ \E username \in Usernames, password \in Passwords :
        LET resp == login_for_access_token(users, username, password, clock)
        IN /\ Cardinality(issued \cup TokensOf(resp)) <= cap
           /\ issued' = issued \cup TokensOf(resp)
           /\ last' = [op |-> "login",
                       req |-> [username |-> username, password |-> password],
                       resp |-> resp]
           /\ UNCHANGED <<users, next_id, clock, pending>>

Login == LoginWithin(MaxTokens)
LoginOne == LoginWithin(MaxOneTokens)

RefreshWithin(cap) ==
    /\ IsIdle
    /\ \E token \in Presentable :
        LET resp == refresh_access_token(users, token, clock)
        IN /\ Cardinality(issued \cup TokensOf(resp)) <= cap
           /\ issued' = issued \cup TokensOf(resp)
           /\ last' = [op |-> "refresh", req |-> [token |-> token], resp |-> resp]
           /\ UNCHANGED <<users, next_id, clock, pending>>

Refresh == RefreshWithin(MaxTokens)
RefreshOne == RefreshWithin(MaxOneTokens)

\* create_access_token / create_refresh_token called directly with a claims
\* map of the caller's choice, as the tests do.
MintClaims ==
    {[sub |-> "alice", user_id |-> 1],
     [user_id |-> 1, role |-> "admin"]}

Mint ==
    /\ IsIdle
    /\ \E data \in MintClaims, kind \in {"access", "refresh"} :
        LET token == IF kind = "access"
                     THEN create_access_token(data, AccessTtl, clock)
                     ELSE create_refresh_token(data, clock)
        IN /\ Cardinality(issued \cup {token}) <= MaxOneTokens
           /\ issued' = issued \cup {token}
           /\ last' = [op |-> "mint", req |-> [data |-> data, kind |-> kind],
                       resp |-> Ok(token)]
    /\ UNCHANGED <<users, next_id, clock, pending>>

\* A row added to the table directly, User(..., hashed_password=<a string>),
\* as the database tests do; the table keeps usernames and emails unique.
AddRawUser ==
    /\ IsIdle
    /\ next_id <= MaxUsers
    /\ get_user_by_username(users, "bob") = None
    /\ get_user_by_email(users, "b@x") = None
    /\ \E is_active \in BOOLEAN :
        LET row == [id |-> next_id, username |-> "bob", email |-> "b@x",
                    full_name |-> Some("Test User"), is_active |-> is_active,
                    is_superuser |-> FALSE, role |-> "user",
                    hashed_password |-> MalformedHash]
        IN /\ users' = Insert(users, row)
           /\ last' = [op |-> "add_user", req |-> row, resp |-> Ok(<<>>)]
    /\ next_id' = next_id + 1
    /\ UNCHANGED <<clock, issued, pending>>

Me ==
    /\ IsIdle
    /\ \E token \in Presentable :
        /\ last' = [op |-> "me", req |-> [token |-> token],
                    resp |-> read_users_me(users, token, clock)]
        /\ UNCHANGED <<users, next_id, clock, issued, pending>>

MyRole ==
    /\ IsIdle
    /\ \E token \in Presentable :
        /\ last' = [op |-> "my_role", req |-> [token |-> token],
                    resp |-> get_my_role(users, token, clock)]
        /\ UNCHANGED <<users, next_id, clock, issued, pending>>

Authorizations ==
    {None} \cup {Some([scheme |-> s, token |-> t]) : s \in {"Bearer"}, t \in Presentable}
           \cup {Some([scheme |-> "Basic", token |-> Malformed])}

VerifyPermissionOver(roles) ==
    /\ IsIdle
    /\ \E authorization \in Authorizations, required_role \in roles :
        /\ last' = [op |-> "verify_permission",
                    req |-> [authorization |-> authorization,
                             required_role |-> required_role],
                    resp |-> verify_permission(authorization, required_role, clock)]
        /\ UNCHANGED <<users, next_id, clock, issued, pending>>

VerifyPermission == VerifyPermissionOver(RequiredRoles)
VerifyPermissionAnyRole == VerifyPermissionOver(Roles)

ListUsers ==
    /\ IsIdle
    /\ \E token \in Presentable :
        /\ last' = [op |-> "list_users", req |-> [token |-> token],
                    resp |-> list_users(users, token, clock)]
        /\ UNCHANGED <<users, next_id, clock, issued, pending>>

ActivateUser ==
    /\ IsIdle
    /\ \E token \in Presentable, user_id \in UserIds :
        LET r == activate_user(users, user_id, token, clock)
        IN /\ users' = r.db
           /\ last' = [op |-> "activate_user",
                       req |-> [token |-> token, user_id |-> user_id],
                       resp |-> r.resp]
           /\ UNCHANGED <<next_id, clock, issued, pending>>

DeactivateUser ==
    /\ IsIdle
    /\ \E token \in Presentable, user_id \in UserIds :
        LET r == deactivate_user(users, user_id, token, clock)
        IN /\ users' = r.db
           /\ last' = [op |-> "deactivate_user",
                       req |-> [token |-> token, user_id |-> user_id],
                       resp |-> r.resp]
           /\ UNCHANGED <<next_id, clock, issued, pending>>

\* crud.update_user called directly (no route exposes it).
RoleUpdates == {[role |-> r] : r \in StoredRoles}
ActiveUpdates == {[is_active |-> b] : b \in BOOLEAN}

UpdateUserFrom(updates) ==
    /\ IsIdle
    /\ \E user_id \in DOMAIN users, user_update \in updates :
        /\ users' = update_user(users, user_id, user_update)
        /\ last' = [op |-> "update_user",
                    req |-> [user_id |-> user_id, user_update |-> user_update],
                    resp |-> Ok(<<>>)]
        /\ UNCHANGED <<next_id, clock, issued, pending>>

UpdateRole == UpdateUserFrom(RoleUpdates)
UpdateUser == UpdateUserFrom(RoleUpdates \cup ActiveUpdates)

\* crud.delete_user called directly (no route exposes it).
DeleteUser ==
    /\ IsIdle
    /\ \E user_id \in DOMAIN users :
        /\ users' = delete_user(users, user_id)
        /\ last' = [op |-> "delete_user", req |-> [user_id |-> user_id],
                    resp |-> Ok(<<>>)]
        /\ UNCHANGED <<next_id, clock, issued, pending>>

\* The response is sent.
Respond ==
    /\ ~IsIdle
    /\ last' = Idle
    /\ UNCHANGED <<users, next_id, clock, issued, pending>>

\* Time passes, up to the second an issued token names as its expiry or to
\* the second after it.
TickTargets == {t.payload.exp + d : t \in issued, d \in {0, 1}}

Tick ==
    /\ IsIdle
    /\ \E now \in TickTargets :
        /\ now > clock
        /\ clock' = now
    /\ UNCHANGED <<users, next_id, issued, last, pending>>

Next ==
    \/ Register
    \/ Login
    \/ Refresh
    \/ Me
    \/ MyRole
    \/ VerifyPermission
    \/ ListUsers
    \/ ActivateUser
    \/ DeactivateUser
    \/ UpdateRole
    \/ Respond

\* Two accounts, within a window in which no token expires.
Spec == Init /\ [][Next]_vars

NextTime ==
    \/ RegisterOne
    \/ LoginOne
    \/ RefreshOne
    \/ Me
    \/ MyRole
    \/ VerifyPermission
    \/ UpdateUser
    \/ DeleteUser
    \/ Respond
    \/ Tick

\* One account and its tokens as time passes.
SpecTime == Init /\ [][NextTime]_vars

NextMint ==
    \/ RegisterOne
    \/ AddRawUser
    \/ LoginOne
    \/ Mint
    \/ RefreshOne
    \/ Me
    \/ VerifyPermissionAnyRole
    \/ Respond

\* Tokens minted with claims of the caller's choice, and the one account.
SpecMint == Init /\ [][NextMint]_vars

\* One admin account that is registered, deactivated, activated and deleted
\* while its tokens age.
LifeBodies ==
    {b \in RegisterBodies :
        /\ b.username = "alice" /\ b.email = "a@x"
        /\ b.role = "admin" /\ ~b.is_superuser}

RegisterLife == RegisterFrom(LifeBodies)
UpdateActive == UpdateUserFrom(ActiveUpdates)

NextLife ==
    \/ RegisterLife
    \/ LoginOne
    \/ RefreshOne
    \/ Me
    \/ MyRole
    \/ VerifyPermission
    \/ UpdateActive
    \/ DeleteUser
    \/ Respond
    \/ Tick

SpecLife == Init /\ [][NextLife]_vars
\* check_role_permission applied to a pair of role strings.
RoleStrings ==
    KnownRoles \cup {"guest", "", "Admin", "ADMIN", "root", "superadmin", "moderators"}

InitRoles ==
    /\ users = <<>>
    /\ next_id = 1
    /\ clock = 0
    /\ issued = {}
    /\ pending = <<>>
    /\ last \in {[op |-> "role_pair",
                  req |-> [user_role |-> a, required_role |-> r],
                  resp |-> Ok(<<>>)] : a \in RoleStrings, r \in RoleStrings}

CheckRole ==
    /\ last.op = "role_pair"
    /\ last' = [op |-> "check_role_permission", req |-> last.req,
                resp |-> Ok(check_role_permission(last.req.user_role,
                                                  last.req.required_role))]
    /\ UNCHANGED <<users, next_id, clock, issued, pending>>

SpecRoles == InitRoles /\ [][CheckRole]_vars

\* ------------------------------------------------------------ error kinds
InvalidCredentials(resp) ==
    /\ resp.status = HTTP_401_UNAUTHORIZED
    /\ resp.detail = "Incorrect username or password"

InvalidToken(resp) ==
    /\ resp.status = HTTP_401_UNAUTHORIZED
    /\ resp.detail \in {"Could not validate credentials", "Invalid refresh token"}

UserNotFound(resp) ==
    /\ resp.status = HTTP_401_UNAUTHORIZED
    /\ resp.detail = "User not found"

InactiveUser(resp) ==
    /\ resp.status = HTTP_401_UNAUTHORIZED
    /\ resp.detail = "Inactive user"

Forbidden(resp) == resp.status = HTTP_403_FORBIDDEN

\* ------------------------------------------------------------- properties
\* The token of a request that carries one, and what it decodes to now.
Bearer ==
    /\ last.op = "verify_permission"
    /\ last.req.authorization # None
    /\ last.req.authorization[1].scheme = "Bearer"

Decoded(token) == jwt_decode(token, JWT_SECRET_KEY, clock)
RoleIn(payload) == GetOr(payload, "role", "user")

\* C1: verify_permission, given a bearer token and a required role, answers
\* 401 InvalidToken when the token does not decode, 403 Forbidden when it
\* decodes and its role does not reach the required one, and otherwise
\* allowed = true with the token's user_id, sub (as username) and role; no
\* answer carries allowed = false.
C1_VerifyPermissionOutcomes ==
    Bearer =>
        LET token == last.req.authorization[1].token
            payload == Decoded(token)
        IN /\ payload = None =>
                /\ InvalidToken(last.resp)
                /\ last.resp.body = None
           /\ payload # None /\ ~check_role_permission(RoleIn(payload[1]),
                                                       last.req.required_role) =>
                /\ Forbidden(last.resp)
                /\ last.resp.body = None
           /\ payload # None /\ check_role_permission(RoleIn(payload[1]),
                                                      last.req.required_role) =>
                /\ IsOk(last.resp)
                /\ last.resp.body =
                     Some([allowed |-> TRUE,
                           user_id |-> Get(payload[1], "user_id"),
                           username |-> Get(payload[1], "sub"),
                           role |-> RoleIn(payload[1])])
           /\ IsOk(last.resp) => last.resp.body[1].allowed = TRUE

\* Some time after its issue, a token of an admin is allowed what a
\* moderator is allowed.
C1_Witness ==
    /\ Bearer
    /\ clock > 0
    /\ last.req.required_role = "moderator"
    /\ IsOk(last.resp)
    /\ last.resp.body[1].allowed = TRUE
    /\ last.resp.body[1].role = "admin"

\* The level the role hierarchy gives a role string.
Level(role) ==
    CASE role = "user" -> 0
      [] role = "moderator" -> 1
      [] role = "admin" -> 2
      [] role = "super_admin" -> 3
      [] OTHER -> 0

\* C2: check_role_permission(actor, required) is true exactly when
\* level(actor) >= level(required), with user 0, moderator 1, admin 2,
\* super_admin 3 and any other string 0.
C2_RolePermissionIsLevelOrder ==
    last.op = "check_role_permission" =>
        last.resp.body[1] =
            (Level(last.req.user_role) >= Level(last.req.required_role))

\* An unknown role string is permitted what a user is, and nothing more.
C2_Witness ==
    /\ last.op = "check_role_permission"
    /\ last.req.user_role = "root"
    /\ last.req.required_role = "user"
    /\ last.resp.body[1] = TRUE
\* The operations that verify a token, and the token each was given.
TokenOps == {"me", "my_role", "list_users", "activate_user", "deactivate_user",
             "refresh"}

Verifies == last.op \in TokenOps \/ Bearer

Presented ==
    IF last.op = "verify_permission" THEN last.req.authorization[1].token
    ELSE last.req.token

SignedByServer(token) == token.sig = Hmac(JWT_SECRET_KEY, token.payload)

ExpiredBy(token, now) == "exp" \in DOMAIN token.payload /\ token.payload.exp <= now

\* C3 (as stated): a verifier rejects with InvalidToken every token that is
\* not signed with the server's secret or whose exp is at or before the
\* current time.
C3_RejectedUnlessSignedAndBeforeExp ==
    Verifies /\ (~SignedByServer(Presented) \/ ExpiredBy(Presented, clock))
        => InvalidToken(last.resp)

\* C4 (as stated): a refresh token is rejected by /auth/me, /rbac/my-role
\* and /rbac/verify-permission, and a token that is no refresh token is
\* rejected by /auth/refresh.
IsRefreshToken(token) ==
    /\ SignedByServer(token)
    /\ Get(token.payload, "type") = Some("refresh")

C4_TokenKindsNeverInterchanged ==
    /\ (last.op \in {"me", "my_role"} \/ Bearer) /\ IsRefreshToken(Presented)
            => ~IsOk(last.resp)
    /\ last.op = "refresh" /\ ~IsRefreshToken(Presented) => ~IsOk(last.resp)

\* C5: /auth/refresh answers 401 "Invalid refresh token", and issues no
\* token, for every token that does not decode, has no sub claim, or has no
\* type claim equal to "refresh".
C5_RefreshRejectsNonRefreshTokens ==
    last.op = "refresh" =>
        LET payload == Decoded(Presented)
        IN (\/ payload = None
            \/ "sub" \notin DOMAIN payload[1]
            \/ "type" \notin DOMAIN payload[1]
            \/ payload[1].type # "refresh") =>
                /\ last.resp.status = HTTP_401_UNAUTHORIZED
                /\ last.resp.detail = "Invalid refresh token"
                /\ last.resp.body = None

\* A refresh token signed by the server that names no subject is refused.
C5_Witness ==
    /\ last.op = "refresh"
    /\ IsRefreshToken(Presented)
    /\ "sub" \notin DOMAIN Presented.payload
    /\ last.resp.detail = "Invalid refresh token"

\* The row of the user a token names, if the token decodes and names one.
Subject(token) ==
    LET payload == Decoded(token)
    IN IF payload = None \/ "sub" \notin DOMAIN payload[1] THEN None
       ELSE LET ids == {i \in DOMAIN users : users[i].username = payload[1].sub}
            IN IF ids = {} THEN None ELSE Some(users[CHOOSE i \in ids : TRUE])

\* C6: /auth/refresh, given a valid refresh token of a stored user, returns
\* an access token and no refresh token, and the access token's sub, user_id
\* and role are those of the row stored at the time of the call.
C6_RefreshUsesStoredRecord ==
    (/\ last.op = "refresh"
     /\ Decoded(Presented) # None
     /\ IsRefreshToken(Presented)
     /\ Subject(Presented) # None) =>
            /\ IsOk(last.resp)
            /\ last.resp.body[1].refresh_token = None
            /\ last.resp.body[1].token_type = "bearer"
            /\ LET new == Decoded(last.resp.body[1].access_token)
                   user == Subject(Presented)[1]
               IN /\ new # None
                  /\ new[1].sub = user.username
                  /\ new[1].user_id = user.id
                  /\ new[1].role = user.role
                  /\ new[1].exp = clock + ACCESS_TOKEN_EXPIRE_MINUTES * 60

\* The role was changed between login and refresh: the new access token
\* carries the stored role, not the refresh token's.
C6_Witness ==
    /\ last.op = "refresh"
    /\ IsOk(last.resp)
    /\ Presented.payload.role # Subject(Presented)[1].role
    /\ last.resp.body[1].access_token.payload.role = Subject(Presented)[1].role
\* The stored rows a login request names with the right password.
Matching(req) ==
    {i \in DOMAIN users :
        /\ users[i].username = req.username
        /\ users[i].hashed_password.digest =
               Digest(users[i].hashed_password.salt, req.password)}

\* C7: a login with the password of a stored user returns a bearer token
\* pair: the access token decodes to sub = username, user_id = stored id,
\* role = stored role; the refresh token carries the same three claims and
\* type = "refresh"; expires_in is ACCESS_TOKEN_EXPIRE_MINUTES * 60.
C7_LoginReturnsTokenPair ==
    last.op = "login" /\ Matching(last.req) # {} =>
        /\ IsOk(last.resp)
        /\ last.resp.body[1].token_type = "bearer"
        /\ last.resp.body[1].expires_in = ACCESS_TOKEN_EXPIRE_MINUTES * 60
        /\ last.resp.body[1].refresh_token # None
        /\ \A i \in Matching(last.req) :
             LET access == Decoded(last.resp.body[1].access_token)
                 refresh == Decoded(last.resp.body[1].refresh_token[1])
             IN /\ access # None
                /\ refresh # None
                /\ \A claims \in {access[1], refresh[1]} :
                     /\ claims.sub = users[i].username
                     /\ claims.user_id = users[i].id
                     /\ claims.role = users[i].role
                /\ Get(refresh[1], "type") = Some("refresh")

\* A stored admin logs in.
C7_Witness ==
    /\ last.op = "login"
    /\ IsOk(last.resp)
    /\ last.req.username = "bob"
    /\ last.resp.body[1].access_token.payload.role = "admin"
    /\ last.resp.body[1].refresh_token[1].payload.type = "refresh"

\* C8: a login that names no stored user and a login with a wrong password
\* of a stored user get the same answer (401, the same detail and headers,
\* no body), and no token is issued.
C8_LoginFailuresIndistinguishable ==
    last.op = "login" /\ Matching(last.req) = {} =>
        /\ InvalidCredentials(last.resp)
        /\ last.resp = [status |-> HTTP_401_UNAUTHORIZED,
                        detail |-> "Incorrect username or password",
                        headers |-> Some("WWW-Authenticate: Bearer"),
                        body |-> None]
        /\ TokensOf(last.resp) = {}

\* A login naming a user that is not stored, while another user is.
C8_Witness ==
    /\ last.op = "login"
    /\ users # <<>>
    /\ \A i \in DOMAIN users : users[i].username # last.req.username
    /\ InvalidCredentials(last.resp)

\* The endpoints that depend on get_current_active_user.
ActiveOps == {"me", "my_role", "list_users", "activate_user", "deactivate_user"}

\* C9 (Subject is read in the store as the request arrives): a request to an endpoint that depends on get_current_active_user,
\* presenting a decodable token of a user who is deactivated as the request
\* arrives, fails with InactiveUser and changes nothing; presenting one of
\* an active user (in particular one activated again) it is not refused as
\* inactive or unauthenticated.
C9_Step ==
    last'.op \in ActiveOps /\ Subject(last'.req.token) # None =>
        IF ~Subject(last'.req.token)[1].is_active
        THEN InactiveUser(last'.resp) /\ users' = users
        ELSE last'.resp.status # HTTP_401_UNAUTHORIZED

C9_InactiveUserRefusedUntilActivated == [][C9_Step]_vars

\* A deactivated user's token, which still decodes, is refused at an
\* endpoint that requires an active user.
C9_Witness ==
    /\ last.op \in ActiveOps
    /\ Decoded(last.req.token) # None
    /\ Subject(last.req.token) # None
    /\ ~Subject(last.req.token)[1].is_active
    /\ InactiveUser(last.resp)

\* C10: /auth/me and /rbac/my-role answer with the role, is_active and
\* is_superuser of the stored row of the token's subject, whatever the token
\* embeds; when the token decodes and its subject is not stored, they fail
\* with UserNotFound.
C10_IdentityIsLiveRecord ==
    last.op \in {"me", "my_role"} /\ Decoded(last.req.token) # None
        /\ "sub" \in DOMAIN last.req.token.payload =>
            LET user == Subject(last.req.token)
            IN IF user = None
               THEN UserNotFound(last.resp) /\ last.resp.body = None
               ELSE IsOk(last.resp) =>
                     /\ last.resp.body[1].username = user[1].username
                     /\ last.resp.body[1].role = user[1].role
                     /\ last.resp.body[1].is_superuser = user[1].is_superuser
                     /\ last.op = "me" => last.resp.body[1].is_active = user[1].is_active

\* /rbac/my-role answers with the stored role although the token embeds
\* another one.
C10_Witness ==
    /\ last.op = "my_role"
    /\ IsOk(last.resp)
    /\ last.req.token.payload.role # last.resp.body[1].role
    /\ last.resp.body[1].role = Subject(last.req.token)[1].role
\* C11: verify_permission with a token that decodes answers allowed = true,
\* with the embedded role, for every required role the embedded role's level
\* reaches, whatever role the subject's row holds now: a role lowered after
\* the token was issued changes nothing until the token expires.
C11_VerifyPermissionUsesEmbeddedRole ==
    Bearer /\ Decoded(Presented) # None
        /\ Level(RoleIn(Presented.payload)) >= Level(last.req.required_role) =>
            /\ IsOk(last.resp)
            /\ last.resp.body[1].allowed = TRUE
            /\ last.resp.body[1].role = RoleIn(Presented.payload)

\* The subject was an admin when the token was issued and is a user now:
\* the token still passes for required_role = admin.
C11_Witness ==
    /\ Bearer
    /\ last.req.required_role = "admin"
    /\ IsOk(last.resp)
    /\ last.resp.body[1].allowed = TRUE
    /\ Presented.payload.role = "admin"
    /\ Subject(Presented) # None
    /\ Subject(Presented)[1].role = "user"

\* A token no verifier can accept at time `now`: its signature is not the
\* server's, or its exp lies before `now`.
Dead(token, now) ==
    \/ ~SignedByServer(token)
    \/ "exp" \in DOMAIN token.payload /\ token.payload.exp < now

\* The request `l` is a verifier's, handling `token`.
Handles(l, token) ==
    \/ l.op \in TokenOps /\ l.req.token = token
    \/ /\ l.op = "verify_permission"
       /\ l.req.authorization = Some([scheme |-> "Bearer", token |-> token])

\* C12: being expired or invalid is absorbing.  A token string that is dead
\* before a step is dead after it, whatever the step (login, refresh,
\* register, role or activity update, delete, passage of time), and a
\* verifier handling it in that step rejects it with InvalidToken; time
\* never runs backwards.
C12_Step ==
    /\ clock' >= clock
    /\ clock' # clock =>
         \A token \in Presentable : Dead(token, clock) => Dead(token, clock')
    /\ last'.op \in TokenOps \cup {"verify_permission"} =>
         \A token \in Presentable :
             Handles(last', token) /\ Dead(token, clock) =>
                InvalidToken(last'.resp) /\ last'.resp.body = None

C12_DeadTokensStayDead == [][C12_Step]_vars

\* An issued refresh token, past its expiry, is presented to /auth/refresh
\* and rejected.
C12_Witness ==
    /\ last.op = "refresh"
    /\ IsRefreshToken(Presented)
    /\ Presented \in issued
    /\ Dead(Presented, clock)
    /\ InvalidToken(last.resp)
\* The kind of failure the state of the store, the clock and the request
\* call for, for a request that fails.
AuthOps == {"login", "refresh", "me", "my_role", "verify_permission"}

FailureKind ==
    CASE last.op = "login" -> "InvalidCredentials"
      [] last.op = "refresh" ->
            IF \/ Dead(Presented, clock)
               \/ "sub" \notin DOMAIN Presented.payload
               \/ Get(Presented.payload, "type") # Some("refresh")
            THEN "InvalidToken" ELSE "UserNotFound"
      [] last.op \in {"me", "my_role"} ->
            IF Dead(Presented, clock) \/ "sub" \notin DOMAIN Presented.payload
            THEN "InvalidToken"
            ELSE IF Subject(Presented) = None THEN "UserNotFound"
            ELSE "InactiveUser"
      [] last.op = "verify_permission" ->
            IF ~Bearer THEN "InvalidToken"
            ELSE IF Dead(Presented, clock) THEN "InvalidToken"
            ELSE "Forbidden"

StatusOf(kind) ==
    IF kind = "Forbidden" THEN HTTP_403_FORBIDDEN ELSE HTTP_401_UNAUTHORIZED

\* C13: a failure of login, refresh, /auth/me, /rbac/my-role or
\* /rbac/verify-permission carries the status of its kind: 401 for
\* InvalidCredentials, InvalidToken, UserNotFound and InactiveUser, 403 for
\* Forbidden, and no other status.
C13_FailureStatusByKind ==
    last.op \in AuthOps /\ ~IsOk(last.resp) =>
        /\ last.resp.status = StatusOf(FailureKind)
        /\ last.resp.body = None
        /\ FailureKind = "InvalidCredentials" => InvalidCredentials(last.resp)
        /\ FailureKind = "UserNotFound" => UserNotFound(last.resp)
        /\ FailureKind = "InactiveUser" => InactiveUser(last.resp)
        /\ FailureKind = "InvalidToken" /\ (last.op = "verify_permission" => Bearer)
                => InvalidToken(last.resp)

\* A token that decodes, whose role does not reach the required one: 403.
C13_Witness ==
    /\ Bearer
    /\ ~Dead(Presented, clock)
    /\ FailureKind = "Forbidden"
    /\ last.resp.status = HTTP_403_FORBIDDEN
\* C14: authenticate_user returns the stored user whenever the username is
\* stored and the password verifies, active or not, and nothing otherwise;
\* so a login of a deactivated user with the right password is answered
\* with an access token and a refresh token.
C14_AuthenticateIgnoresIsActive ==
    /\ \A username \in Usernames, password \in Passwords :
         LET rows == Matching([username |-> username, password |-> password])
             found == authenticate_user(users, username, password)
         IN IF rows = {} THEN found = None
            ELSE found # None /\ found[1].id \in rows
    /\ last.op = "login" =>
         (IsOk(last.resp) <=> Matching(last.req) # {})
    /\ last.op = "login" /\ IsOk(last.resp) =>
         /\ last.resp.body[1].refresh_token # None
         /\ SignedByServer(last.resp.body[1].access_token)
         /\ SignedByServer(last.resp.body[1].refresh_token[1])

\* A deactivated user logs in with the right password and gets both tokens.
C14_Witness ==
    /\ last.op = "login"
    /\ IsOk(last.resp)
    /\ last.resp.body[1].refresh_token # None
    /\ \E i \in Matching(last.req) : ~users[i].is_active
\* C15: a token that decodes and carries no role claim counts as role
\* "user": verify_permission answers role = "user" and allowed = true when
\* the required role is "user" or an unrecognized string, and Forbidden when
\* it is moderator, admin or super_admin.
C15_MissingRoleIsUser ==
    Bearer /\ Decoded(Presented) # None /\ "role" \notin DOMAIN Presented.payload =>
        IF last.req.required_role \in {"moderator", "admin", "super_admin"}
        THEN Forbidden(last.resp) /\ last.resp.body = None
        ELSE /\ IsOk(last.resp)
             /\ last.resp.body[1].allowed = TRUE
             /\ last.resp.body[1].role = "user"

\* A token minted without a role passes for an unrecognized required role.
C15_Witness ==
    /\ Bearer
    /\ "role" \notin DOMAIN Presented.payload
    /\ SignedByServer(Presented)
    /\ last.req.required_role = "guest"
    /\ IsOk(last.resp)
    /\ last.resp.body[1].role = "user"
\* C16: /auth/refresh with a valid refresh token whose subject is no longer
\* stored answers 401 "User not found" and issues no access token.
C16_RefreshOfDeletedUser ==
    (/\ last.op = "refresh"
     /\ ~Dead(Presented, clock)
     /\ IsRefreshToken(Presented)
     /\ "sub" \in DOMAIN Presented.payload
     /\ \A i \in DOMAIN users : users[i].username # Presented.payload.sub) =>
        /\ last.resp.status = HTTP_401_UNAUTHORIZED
        /\ last.resp.detail = "User not found"
        /\ last.resp.body = None
        /\ TokensOf(last.resp) = {}

\* The refresh token a login returned is presented after the user's row
\* was deleted.
C16_Witness ==
    /\ last.op = "refresh"
    /\ Presented \in issued
    /\ IsRefreshToken(Presented)
    /\ ~Dead(Presented, clock)
    /\ users = <<>>
    /\ UserNotFound(last.resp)
\* verify_password applied to a secret and the hash of a secret.
Secrets == {"", "pw1", "pw2", "PW1", "pw1 ", "pw11"}
Salts == {1, 2}

InitHash ==
    /\ users = <<>>
    /\ next_id = 1
    /\ clock = 0
    /\ issued = {}
    /\ pending = <<>>
    /\ last \in {[op |-> "secrets",
                  req |-> [plain_password |-> s1, password |-> s2, salt |-> salt],
                  resp |-> Ok(<<>>)] : s1 \in Secrets, s2 \in Secrets, salt \in Salts}

HashAndVerify ==
    /\ last.op = "secrets"
    /\ LET hashed_password == get_password_hash(last.req.password, last.req.salt)
       IN last' = [op |-> "verify_password",
                   req |-> last.req @@ [hashed_password |-> hashed_password],
                   resp |-> Ok(verify_password(last.req.plain_password, hashed_password))]
    /\ UNCHANGED <<users, next_id, clock, issued, pending>>

SpecHash == InitHash /\ [][HashAndVerify]_vars

ClaimMaps ==
    {[sub |-> "alice", user_id |-> 1, role |-> "admin"],
     [sub |-> "bob", user_id |-> 2, role |-> "user"],
     [sub |-> "noroluser", user_id |-> 4],
     [sub |-> "testuser"],
     [user_id |-> 1, role |-> "moderator"],
     [sub |-> "alice", scope |-> "read write", role |-> "guest"],
     [sub |-> "", role |-> ""],
     <<>>}
IssueTimes == {0, 1, 1000}
Lifetimes == {1, AccessTtl}

InitCodec ==
    /\ users = <<>>
    /\ next_id = 1
    /\ issued = {}
    /\ pending = <<>>
    /\ clock \in IssueTimes
    /\ last \in {[op |-> "claims",
                  req |-> [data |-> data, expires_delta |-> delta],
                  resp |-> Ok(<<>>)] : data \in ClaimMaps, delta \in Lifetimes}

\* The token is created now and decoded at some second up to its exp.
EncodeDecode ==
    /\ last.op = "claims"
    /\ \E later \in {0, last.req.expires_delta} :
        LET token == create_access_token(last.req.data, last.req.expires_delta, clock)
        IN /\ clock' = clock + later
           /\ last' = [op |-> "round_trip",
                       req |-> last.req @@ [issued_at |-> clock, token |-> token],
                       resp |-> Ok(jwt_decode(token, JWT_SECRET_KEY, clock + later))]
    /\ UNCHANGED <<users, next_id, issued, pending>>

SpecCodec == InitCodec /\ [][EncodeDecode]_vars

C20_PermissionIsTotalPreorder ==
    /\ last.op = "check_role_permission"
            /\ last.req.user_role = last.req.required_role
       => last.resp.body = Some(TRUE)
    /\ \A a \in RoleStrings, b \in RoleStrings :
         /\ check_role_permission(a, a)
         /\ check_role_permission(a, b) \/ check_role_permission(b, a)
         /\ \A c \in RoleStrings :
              /\ check_role_permission(a, b) /\ Level(c) <= Level(b)
                    => check_role_permission(a, c)
              /\ check_role_permission(a, b) /\ Level(c) >= Level(a)
                    => check_role_permission(c, b)

\* An unrecognized role permits itself.
C20_Witness ==
    /\ last.op = "check_role_permission"
    /\ last.req.user_role = "superadmin"
    /\ last.req.required_role = "superadmin"
    /\ last.resp.body = Some(TRUE)
\* C21: a registration naming the username of a stored user is answered
\* 400 "Username already registered"; one with a new username and the email
\* of a stored user is answered 400 "Email already registered"; in both
\* cases the users table is left as it was.
C21_Step ==
    last'.op = "register" =>
        LET body == last'.req
            same_name == \E i \in DOMAIN users : users[i].username = body.username
            same_email == \E i \in DOMAIN users : users[i].email = body.email
        IN /\ same_name =>
                /\ last'.resp.status = HTTP_400_BAD_REQUEST
                /\ last'.resp.detail = "Username already registered"
                /\ users' = users
           /\ ~same_name /\ same_email =>
                /\ last'.resp.status = HTTP_400_BAD_REQUEST
                /\ last'.resp.detail = "Email already registered"
                /\ users' = users

C21_DuplicateRegistrationRefused == [][C21_Step]_vars

\* A new username with the email of a stored user is refused.
C21_Witness ==
    /\ last.op = "register"
    /\ last.resp.detail = "Email already registered"
    /\ \E i \in DOMAIN users :
         users[i].email = last.req.email /\ users[i].username # last.req.username
    /\ \A i \in DOMAIN users : users[i].username # last.req.username

\* The row a successful registration has just stored.
Registered == get_user_by_id(users, last.resp.body[1].user_id)

\* C22: every user created by register_user is stored active, not a
\* superuser, and with a hash of the password rather than the password,
\* whatever the request body contains.
C22_RegistrationNeverPrivileged ==
    last.op = "register" /\ IsOk(last.resp) =>
        /\ Registered # None
        /\ Registered[1].is_active
        /\ ~Registered[1].is_superuser
        /\ DOMAIN Registered[1].hashed_password = {"salt", "digest"}
        /\ verify_password(last.req.password, Registered[1].hashed_password)

AdminOps == {"list_users", "activate_user", "deactivate_user"}

\* C23: list_users, activate_user and deactivate_user are for superusers
\* only.  A caller whose stored row (as the request arrives) is active and
\* not a superuser is answered 403 "Not enough permissions" whatever the
\* row's role, gets no list, and the users table stays as it was; a caller
\* whose row is an active superuser is never refused as lacking permission.
C23_Step ==
    last'.op \in AdminOps =>
        LET caller == Subject(last'.req.token)
        IN caller # None /\ caller[1].is_active =>
            IF caller[1].is_superuser
            THEN ~Forbidden(last'.resp)
            ELSE /\ last'.resp.status = HTTP_403_FORBIDDEN
                 /\ last'.resp.detail = "Not enough permissions"
                 /\ last'.resp.body = None
                 /\ users' = users

C23_AdminRoutesSuperuserOnly == [][C23_Step]_vars

\* A stored admin who is not a superuser is refused the user listing.
C23_Witness ==
    /\ last.op = "list_users"
    /\ Forbidden(last.resp)
    /\ Subject(last.req.token) # None
    /\ Subject(last.req.token)[1].role = "admin"
    /\ ~Subject(last.req.token)[1].is_superuser

\* C24: activate_user and deactivate_user, called by an active superuser
\* with a user_id that matches no stored user, answer 404 "User not found"
\* and leave every stored user as it was.
C24_Step ==
    last'.op \in {"activate_user", "deactivate_user"} =>
        LET caller == Subject(last'.req.token)
        IN /\ caller # None
           /\ caller[1].is_active
           /\ caller[1].is_superuser
           /\ \A i \in DOMAIN users : users[i].id # last'.req.user_id
           => /\ last'.resp.status = HTTP_404_NOT_FOUND
              /\ last'.resp.detail = "User not found"
              /\ last'.resp.body = None
              /\ users' = users

C24_UnknownUserIdIsNotFound == [][C24_Step]_vars

\* A superuser asks to activate an id that is not stored.
C24_Witness ==
    /\ last.op = "activate_user"
    /\ last.resp.status = HTTP_404_NOT_FOUND
    /\ users # <<>>
    /\ \A i \in DOMAIN users : users[i].id # last.req.user_id
    /\ Subject(last.req.token)[1].is_superuser

\* C26: a served activate_user(id) sets is_active of the user with that id
\* to true and a served deactivate_user(id) sets it to false; no other field
\* of that user and no other user changes.  Each is idempotent (a second
\* application changes nothing), and deactivating then activating leaves
\* the user active.
C26_Step ==
    /\ last'.op \in {"activate_user", "deactivate_user"} /\ IsOk(last'.resp) =>
          \E i \in DOMAIN users :
              /\ users[i].id = last'.req.user_id
              /\ users' = [users EXCEPT ![i].is_active = (last'.op = "activate_user")]
    /\ \A i \in DOMAIN users :
          LET off == crud_deactivate_user(users, i)
              on == crud_activate_user(users, i)
          IN /\ crud_deactivate_user(off, i) = off
             /\ crud_activate_user(on, i) = on
             /\ crud_activate_user(off, i) = on
             /\ on[i].is_active /\ ~off[i].is_active

Answer(op, req, db, now) ==
    CASE op = "login" -> login_for_access_token(db, req.username, req.password, now)
      [] op = "refresh" -> refresh_access_token(db, req.token, now)
      [] op = "me" -> read_users_me(db, req.token, now)
      [] op = "my_role" -> get_my_role(db, req.token, now)
      [] op = "verify_permission" ->
            verify_permission(req.authorization, req.required_role, now)

\* C25: login (served or refused), refresh, /auth/me, /rbac/my-role and
\* verify_permission leave the users table (and the id counter and the
\* clock) as they were, and what they answer is determined by the request,
\* the table as the request arrives and the current time: neither the
\* tokens issued so far nor the previous request enter it.  (The signing
\* secret and the role table are constants of the module.)
C25_Step ==
    last'.op \in AuthOps =>
        /\ users' = users
        /\ next_id' = next_id
        /\ clock' = clock
        /\ last'.resp = Answer(last'.op, last'.req, users, clock)

Requests == 1..MaxRace

RaceBodies == {b \in RegisterBodies : b.role = "user" /\ ~b.is_superuser}

NotStarted == [pc |-> "idle", body |-> None, result |-> None]

\* The unique indexes of the users table on username and on email.
UniqueViolation(db, row) ==
    \E i \in DOMAIN db :
        db[i].username = row.username \/ db[i].email = row.email

\* Variant of the commit: the table has no unique index.
commit_user_unindexed(db, row) == Return(Insert(db, row))

\* db.add(user); await db.commit(): the INSERT is refused with an
\* IntegrityError when it would break a unique index.
commit_user(db, row) ==
    IF UniqueViolation(db, row) THEN Raise("IntegrityError")
    ELSE Return(Insert(db, row))

InitRace ==
    /\ users = <<>>
    /\ next_id = 1
    /\ clock = 0
    /\ issued = {}
    /\ last = Idle
    /\ pending = [r \in Requests |-> NotStarted]

RaceArrive(r) ==
    /\ pending[r].pc = "idle"
    /\ \E user_data \in RaceBodies :
        pending' = [pending EXCEPT ![r] =
                       [pc |-> "check_username", body |-> Some(user_data),
                        result |-> None]]
    /\ UNCHANGED <<users, next_id, clock, issued, last>>

RaceCheckUsername(r) ==
    /\ pending[r].pc = "check_username"
    /\ pending' = [pending EXCEPT ![r] =
           IF get_user_by_username(users, @.body[1].username) # None
           THEN [@ EXCEPT !.pc = "done",
                          !.result = Some(Return(HTTPException(HTTP_400_BAD_REQUEST,
                                          "Username already registered", None)))]
           ELSE [@ EXCEPT !.pc = "check_email"]]
    /\ UNCHANGED <<users, next_id, clock, issued, last>>

RaceCheckEmail(r) ==
    /\ pending[r].pc = "check_email"
    /\ pending' = [pending EXCEPT ![r] =
           IF get_user_by_email(users, @.body[1].email) # None
           THEN [@ EXCEPT !.pc = "done",
                          !.result = Some(Return(HTTPException(HTTP_400_BAD_REQUEST,
                                          "Email already registered", None)))]
           ELSE [@ EXCEPT !.pc = "create"]]
    /\ UNCHANGED <<users, next_id, clock, issued, last>>

\* create_user and the response.  The route catches nothing: an
\* IntegrityError of the commit ends the request unhandled.
RaceCreate(r) ==
    /\ pending[r].pc = "create"
    /\ next_id <= MaxUsers
    /\ LET user == create_user(users, next_id, pending[r].body[1])
           committed == commit_user(users, user)
       IN IF Raised(committed)
          THEN /\ pending' = [pending EXCEPT ![r] =
                                 [@ EXCEPT !.pc = "done", !.result = Some(committed)]]
               /\ UNCHANGED <<users, next_id>>
          ELSE /\ users' = committed.val
               /\ next_id' = next_id + 1
               /\ pending' = [pending EXCEPT ![r] =
                     [@ EXCEPT !.pc = "done",
                               !.result = Some(Return(Ok(
                                   [message |-> "User registered successfully",
                                    user_id |-> user.id,
                                    username |-> user.username,
                                    email |-> user.email])))]]
    /\ UNCHANGED <<clock, issued, last>>

RaceRespond(r) ==
    /\ pending[r].pc = "done"
    /\ pending' = [pending EXCEPT ![r] = NotStarted]
    /\ UNCHANGED <<users, next_id, clock, issued, last>>

NextRace ==
    \E r \in Requests :
        \/ RaceArrive(r)
        \/ RaceCheckUsername(r)
        \/ RaceCheckEmail(r)
        \/ RaceCreate(r)
        \/ RaceRespond(r)

\* Registrations whose steps interleave.
SpecRace == InitRace /\ [][NextRace]_vars

Created(r) ==
    /\ pending[r].pc = "done"
    /\ ~Raised(pending[r].result[1])
    /\ IsOk(pending[r].result[1].val)

Clash(b1, b2) == b1.username = b2.username \/ b1.email = b2.email

\* C27: no two stored users share a username and no two share an email,
\* also when registrations with the same username or email interleave so
\* that both pass the lookups before either inserts; of two such requests
\* answered side by side at most one has created a user.
C27_UsernamesAndEmailsUnique ==
    /\ \A i, j \in DOMAIN users :
          i # j => users[i].username # users[j].username
                   /\ users[i].email # users[j].email
    /\ \A r1, r2 \in Requests :
          r1 # r2 /\ Created(r1) /\ Created(r2) =>
              ~Clash(pending[r1].body[1], pending[r2].body[1])

\* Two requests with the same username passed both lookups; one created the
\* user and the commit of the other was refused.
C27_Witness ==
    \E r1, r2 \in Requests :
        /\ r1 # r2
        /\ Created(r1)
        /\ pending[r2].pc = "done"
        /\ pending[r2].result = Some(Raise("IntegrityError"))
        /\ pending[r1].body[1].username = pending[r2].body[1].username
        /\ Len(users) = 1

\* C28: verify_permission never consults the users table.  A step that
\* changes the table (a registration, an update, a deletion) changes the
\* answer to no authorization header and required role; and a token that
\* decodes and whose embedded role suffices is answered allowed = true also
\* when its subject is deactivated or not stored.
C28_Step ==
    /\ users' # users /\ clock' = clock =>
          \A authorization \in Authorizations, required_role \in RequiredRoles :
              verify_permission(authorization, required_role, clock)'
                  = verify_permission(authorization, required_role, clock)
    /\ LET l == last'
       IN /\ l.op = "verify_permission"
          /\ l.req.authorization # None
          /\ l.req.authorization[1].scheme = "Bearer"
          /\ Decoded(l.req.authorization[1].token) # None
          /\ Level(RoleIn(l.req.authorization[1].token.payload))
                 >= Level(l.req.required_role)
          /\ \A i \in DOMAIN users :
                 users[i].username = l.req.authorization[1].token.payload.sub
                    => ~users[i].is_active
          => IsOk(l.resp) /\ l.resp.body[1].allowed = TRUE

C28_VerifyPermissionIgnoresStore == [][C28_Step]_vars

\* The access token of a deleted user is answered allowed = true.
C28_Witness ==
    /\ Bearer
    /\ Presented \in issued
    /\ users = <<>>
    /\ IsOk(last.resp)
    /\ last.resp.body[1].allowed = TRUE

\* C29: refresh does not look at is_active.  At every time before the
\* refresh token's exp and as long as the user's row is stored, a refresh
\* with the refresh token of a user who has been deactivated is served and
\* issues a new access token, valid from now for the access lifetime.
C29_RefreshIgnoresIsActive ==
    (/\ last.op = "refresh"
     /\ IsRefreshToken(Presented)
     /\ ~ExpiredBy(Presented, clock)
     /\ Subject(Presented) # None
     /\ ~Subject(Presented)[1].is_active) =>
        /\ IsOk(last.resp)
        /\ last.resp.body[1].access_token \in issued
        /\ SignedByServer(last.resp.body[1].access_token)
        /\ last.resp.body[1].access_token.payload.exp = clock + AccessTtl
        /\ last.resp.body[1].access_token.payload.sub = Presented.payload.sub

\* The user logged in, was deactivated, and refreshes at a later time.
C29_Witness ==
    /\ last.op = "refresh"
    /\ Presented \in issued
    /\ IsOk(last.resp)
    /\ clock > 0
    /\ Subject(Presented) # None
    /\ ~Subject(Presented)[1].is_active

\* C30: the list a superuser gets from list_users holds, for every stored
\* user, a record whose id, username, email, full_name, is_active,
\* is_superuser and role equal the stored values; a stored admin is
\* reported as admin.
C30_ListReportsStoredValues ==
    last.op = "list_users" /\ IsOk(last.resp) =>
        \A i \in DOMAIN users :
            \E read \in last.resp.body[1] :
                /\ read.id = users[i].id
                /\ read.username = users[i].username
                /\ read.email = users[i].email
                /\ read.full_name = users[i].full_name
                /\ read.is_active = users[i].is_active
                /\ read.is_superuser = users[i].is_superuser
                /\ read.role = users[i].role
====
